---- MODULE Spec2Model ----
(***************************************************************************)
(* ztr: select the files of a directory tree with gitignore-style rules    *)
(* and write them into a zip / tar.gz / 7z archive.                        *)
(*                                                                         *)
(* Text is modelled at token granularity.  A file or directory name is a   *)
(* sequence of tokens (<<"keep", ".txt">> is keep.txt), a path is a        *)
(* sequence of names, and a rule line is a sequence of tokens in which     *)
(* "!", "/", "#", " ", "*", "**" and "[" are the characters the gitignore  *)
(* syntax gives a meaning to.                                              *)
(***************************************************************************)
EXTENDS Naturals, Sequences, FiniteSets, Bags, TLC

VARIABLES
    fs,                 \* the file system: path -> [kind, access, content]
    config,             \* the Config record of the run
    pc,                 \* position of the run in main / compress_directory
    runs,               \* compress runs started so far
    todo,               \* WalkDir's stack of entries still to yield
    visited,            \* entries WalkDir has yielded, in order
    walk_errors,        \* Err items WalkDir produced (dropped by filter_map)
    all_files,          \* collect_all_files' Vec
    rule_list,          \* the Vec<String> handed to IgnoreRules::new
    ignore_rules,       \* the IgnoreRules value: [gitignore, base_dir], or NoRules
    files_to_compress,  \* the filtered file list
    writer,             \* which writer function has been entered ("none" if none)
    idx,                \* the writer loop's position in its file list
    entries,            \* entries added to the archive being written
    result,             \* the run's outcome: [status, error]
    call                \* last library call to should_ignore / filter_files

vars == <<fs, config, pc, runs, todo, visited, walk_errors, all_files, rule_list,
          ignore_rules, files_to_compress, writer, idx, entries, result, call>>

----------------------------------------------------------------------------
(* Bounds of the model *)

\* longest rule list handed to IgnoreRules::new by a library caller
MaxRules == 3
\* compress runs on the same base directory
MaxRuns == 2
\* longest file list handed to a writer or to filter_files by a library caller
MaxFiles == 2

----------------------------------------------------------------------------
(* Names, paths and rule lines *)

nBase == <<"base">>
nOther == <<"other">>
nBuild == <<"build">>
nSub == <<"sub">>
nSrc == <<"src">>
nComponents == <<"components">>
nKeepTxt == <<"keep", ".txt">>
nOutputO == <<"output", ".o">>
nFooTxt == <<"foo", ".txt">>
nATmp == <<"a", ".tmp">>
nKeepTmp == <<"keep", ".tmp">>
nImportantLog == <<"important", ".log">>

\* the directory being compressed, as an absolute path
BaseDir == <<nBase>>

\* relative paths the rule matcher is queried on
RelPaths ==
    { <<nATmp>>, <<nKeepTmp>>, <<nImportantLog>>,
      <<nBuild>>, <<nBuild, nKeepTxt>>, <<nBuild, nOutputO>>,
      <<nBuild, nSub>>, <<nBuild, nSub, nOutputO>>, <<nBuild, nSub, nKeepTxt>>,
      <<nSrc>>, <<nSrc, nComponents>>, <<nSrc, nComponents, nFooTxt>>,
      <<nSub, nBuild>>, <<nSub, nBuild, nOutputO>> }

\* rule lines: build/  !build/keep.txt  *.tmp  !keep.tmp  *.log
\* !important.log  src/components/
rBuildDir == <<"build", "/">>
rNotBuildKeep == <<"!", "build", "/", "keep", ".txt">>
rStarTmp == <<"*", ".tmp">>
rNotKeepTmp == <<"!", "keep", ".tmp">>
rStarLog == <<"*", ".log">>
rNotImportantLog == <<"!", "important", ".log">>
rSrcComponentsDir == <<"src", "/", "components", "/">>
\* a line the glob compiler rejects: an unclosed character class
rBad == <<"[">>

RuleLines ==
    { rBuildDir, rNotBuildKeep, rStarTmp, rNotKeepTmp, rStarLog,
      rNotImportantLog, rSrcComponentsDir }

\* names of the archive a run writes: out.zip, out.tar.gz, out.7z
nOutZip == <<"out", ".zip">>
nOutTarGz == <<"out", ".tar.gz">>
nOut7z == <<"out", ".7z">>

\* absolute paths of the modelled file system
pBase == BaseDir
pKeepTmp == <<nBase, nKeepTmp>>
pBuild == <<nBase, nBuild>>
pBuildKeep == <<nBase, nBuild, nKeepTxt>>
pBuildSub == <<nBase, nBuild, nSub>>
pBuildSubOutput == <<nBase, nBuild, nSub, nOutputO>>
pOutZip == <<nBase, nOutZip>>
pOutTarGz == <<nBase, nOutTarGz>>
pOut7z == <<nBase, nOut7z>>
\* a file whose name holds a backslash: w\x
nWBackslashX == <<"w", "\\", "x">>
pWBackslashX == <<nBase, nWBackslashX>>
\* a file that is not under the base directory
pOther == <<nOther, nKeepTxt>>

FsPaths ==
    { pBase, pKeepTmp, pWBackslashX, pBuild, pBuildKeep, pBuildSub, pBuildSubOutput,
      pOutZip, pOutTarGz, pOut7z, <<nOther>>, pOther }

\* all sequences over S of length at most n
SeqsUpTo(S, n) == UNION { [1..k -> S] : k \in 0..n }

----------------------------------------------------------------------------
(* std::path *)

\* Path::strip_prefix succeeds exactly when prefix is a leading run of path's
\* components
StripPrefixOk(path, prefix) ==
    Len(path) >= Len(prefix) /\ SubSeq(path, 1, Len(prefix)) = prefix

\* Path::strip_prefix, the Ok value
StripPrefix(path, prefix) == SubSeq(path, Len(prefix) + 1, Len(path))

\* Path::parent of a relative path: "" is the parent of a single name and has none
HasParent(rel) == Len(rel) > 0
Parent(rel) == SubSeq(rel, 1, Len(rel) - 1)

\* Path::join
Join(dir, rel) == dir \o rel

----------------------------------------------------------------------------
(* The gitignore matcher behind IgnoreRules (crate `ignore`, GitignoreBuilder  *)
(* and Gitignore), as IgnoreRules::new and should_ignore drive it.             *)

RECURSIVE TrimRight(_)
\* str::trim_end on a line: drop trailing whitespace tokens
TrimRight(line) ==
    IF Len(line) > 0 /\ line[Len(line)] = " "
    THEN TrimRight(SubSeq(line, 1, Len(line) - 1))
    ELSE line

RECURSIVE TrimLeft(_)
\* str::trim_start on a line: drop leading whitespace tokens
TrimLeft(line) ==
    IF Len(line) > 0 /\ line[1] = " " THEN TrimLeft(Tail(line)) ELSE line

\* str::trim
Trim(line) == TrimLeft(TrimRight(line))

RECURSIVE SplitSlash(_, _)
\* split a token run on "/" into its path segments; cur is the segment being read
SplitSlash(toks, cur) ==
    IF toks = <<>> THEN <<cur>>
    ELSE IF Head(toks) = "/" THEN <<cur>> \o SplitSlash(Tail(toks), <<>>)
    ELSE SplitSlash(Tail(toks), Append(cur, Head(toks)))

HasSlash(toks) == \E i \in 1..Len(toks) : toks[i] = "/"

\* GitignoreBuilder::add_line skips comment lines and lines that are blank once
\* their trailing whitespace is removed
LineSkipped(line) ==
    \/ (Len(line) > 0 /\ line[1] = "#")
    \/ TrimRight(line) = <<>>

\* add_line fails on a glob that cannot be compiled
LineInvalid(line) == ~LineSkipped(line) /\ \E i \in 1..Len(line) : line[i] = "["

\* GitignoreBuilder::add_line on a line it keeps: strip "!" (whitelist), a leading
\* "/" (absolute), a trailing "/" (directories only); a pattern without any "/"
\* left may match at every depth and gets the "**/" prefix
ParseLine(line) ==
    LET l0 == TrimRight(line)
        white == Len(l0) > 0 /\ l0[1] = "!"
        l1 == IF white THEN Tail(l0) ELSE l0
        absolute == Len(l1) > 0 /\ l1[1] = "/"
        l2 == IF absolute THEN Tail(l1) ELSE l1
        onlydir == Len(l2) > 0 /\ l2[Len(l2)] = "/"
        l3 == IF onlydir THEN SubSeq(l2, 1, Len(l2) - 1) ELSE l2
        segs == SplitSlash(l3, <<>>)
    IN  [ is_whitelist |-> white,
          is_only_dir |-> onlydir,
          segs |-> IF ~absolute /\ ~HasSlash(l3) /\ Head(segs) # <<"**">>
                   THEN <<<<"**">>>> \o segs
                   ELSE segs ]

RECURSIVE BuildGlobs(_)
\* the loop of IgnoreRules::new: one glob per kept line, in the order of rules
BuildGlobs(rules) ==
    IF rules = <<>> THEN <<>>
    ELSE IF LineSkipped(Head(rules)) THEN BuildGlobs(Tail(rules))
    ELSE <<ParseLine(Head(rules))>> \o BuildGlobs(Tail(rules))

RECURSIVE MatchName(_, _)
\* one glob segment against one path component: "*" stands for any run of
\* characters of the component, everything else for itself
MatchName(g, n) ==
    IF g = <<>> THEN n = <<>>
    ELSE IF Head(g) = "*"
         THEN MatchName(Tail(g), n) \/ (n # <<>> /\ MatchName(g, Tail(n)))
         ELSE n # <<>> /\ Head(g) = Head(n) /\ MatchName(Tail(g), Tail(n))

RECURSIVE MatchSegs(_, _)
\* a glob against a whole relative path (literal_separator): "**" stands for any
\* number of leading components, every other segment for exactly one
MatchSegs(gs, ps) ==
    IF gs = <<>> THEN ps = <<>>
    ELSE IF Head(gs) = <<"**">>
         THEN MatchSegs(Tail(gs), ps) \/ (ps # <<>> /\ MatchSegs(gs, Tail(ps)))
         ELSE ps # <<>> /\ MatchName(Head(gs), Head(ps)) /\ MatchSegs(Tail(gs), Tail(ps))

\* a glob decides for a path when it matches it and is not a directory-only glob
\* asked about a non-directory
GlobApplies(glob, rel, is_dir) ==
    MatchSegs(glob.segs, rel) /\ (~glob.is_only_dir \/ is_dir)

\* mutant of MatchedStripped: the earliest applying glob decides
MatchedStrippedFirst(globs, rel, is_dir) ==
    LET hits == { i \in 1..Len(globs) : GlobApplies(globs[i], rel, is_dir) }
    IN  IF hits = {} THEN "None"
        ELSE LET first == CHOOSE i \in hits : \A j \in hits : i <= j
             IN  IF globs[first].is_whitelist THEN "Whitelist" ELSE "Ignore"

\* Gitignore::matched_stripped: the matching globs are examined latest first and
\* the first one that applies decides
MatchedStripped(globs, rel, is_dir) ==
    LET hits == { i \in 1..Len(globs) : GlobApplies(globs[i], rel, is_dir) }
    IN  IF hits = {} THEN "None"
        ELSE LET last == CHOOSE i \in hits : \A j \in hits : j <= i
             IN  IF globs[last].is_whitelist THEN "Whitelist" ELSE "Ignore"

RECURSIVE MatchedParents(_, _)
\* the loop of matched_path_or_any_parents: walk up, each parent asked as a
\* directory, until one of them has a match
MatchedParents(globs, rel) ==
    IF ~HasParent(rel) THEN "None"
    ELSE LET m == MatchedStripped(globs, Parent(rel), TRUE)
         IN  IF m # "None" THEN m ELSE MatchedParents(globs, Parent(rel))

\* Gitignore::matched_path_or_any_parents: the path's own match if it has one,
\* else the match of its nearest parent that has one
MatchedPathOrAnyParents(globs, rel, is_dir) ==
    IF globs = <<>> THEN "None"
    ELSE LET m == MatchedStripped(globs, rel, is_dir)
         IN  IF m # "None" THEN m ELSE MatchedParents(globs, rel)

\* IgnoreRules::should_ignore
ShouldIgnore(ir, path, is_dir) ==
    IF ~StripPrefixOk(path, ir.base_dir) THEN FALSE
    ELSE MatchedPathOrAnyParents(ir.gitignore, StripPrefix(path, ir.base_dir), is_dir)
            = "Ignore"

----------------------------------------------------------------------------
(* The file system, as std::fs and Path::is_file / is_dir see it *)

Absent == [kind |-> "none", access |-> TRUE, content |-> "none"]
DirNode(acc) == [kind |-> "dir", access |-> acc, content |-> "none"]
FileNode(acc, bytes) == [kind |-> "file", access |-> acc, content |-> bytes]

\* every proper ancestor directory of path can be searched, so path can be reached
Reachable(f, path) ==
    \A k \in 1..(Len(path) - 1) :
        LET anc == SubSeq(path, 1, k)
        IN  anc \in DOMAIN f /\ f[anc].kind = "dir" /\ f[anc].access

\* Path::is_file / Path::is_dir: false as well when the metadata cannot be read
IsFile(f, path) == path \in DOMAIN f /\ f[path].kind = "file" /\ Reachable(f, path)
IsDir(f, path) == path \in DOMAIN f /\ f[path].kind = "dir" /\ Reachable(f, path)

\* the order in which read_dir lists names (the model fixes one enumeration order)
NameRank(n) ==
    CASE n = nKeepTmp -> 1
      [] n = nBuild -> 2
      [] n = nKeepTxt -> 3
      [] n = nSub -> 4
      [] n = nOutputO -> 5
      [] n = nOutZip -> 6
      [] n = nOutTarGz -> 7
      [] n = nOut7z -> 8
      [] OTHER -> 9

\* the direct children of dir that exist
Children(f, dir) ==
    { q \in DOMAIN f : Len(q) = Len(dir) + 1 /\ SubSeq(q, 1, Len(dir)) = dir
                        /\ f[q].kind # "none" }

RECURSIVE SortedPaths(_)
\* a set of sibling paths as a sequence, in read_dir order
SortedPaths(S) ==
    IF S = {} THEN <<>>
    ELSE LET first == CHOOSE q \in S :
                        \A r \in S : NameRank(q[Len(q)]) <= NameRank(r[Len(r)])
         IN  <<first>> \o SortedPaths(S \ {first})

----------------------------------------------------------------------------
(* ignore_rules.rs *)

NoRules == [gitignore |-> <<>>, base_dir |-> <<>>, built |-> FALSE]

\* IgnoreRules::new fails when add_line rejects a rule
NewFails(rules) == \E i \in 1..Len(rules) : LineInvalid(rules[i])

\* IgnoreRules::new, the Ok value
NewIgnoreRules(rules, base_dir) ==
    [gitignore |-> BuildGlobs(rules), base_dir |-> base_dir, built |-> TRUE]

RECURSIVE FilterFiles(_, _, _)
\* IgnoreRules::filter_files: keep, in order, the paths should_ignore does not
\* ignore, each asked with is_dir as the file system has it
FilterFiles(ir, f, files) ==
    IF files = <<>> THEN <<>>
    ELSE LET path == Head(files)
             rest == FilterFiles(ir, f, Tail(files))
         IN  IF ~ShouldIgnore(ir, path, IsDir(f, path)) THEN <<path>> \o rest ELSE rest

----------------------------------------------------------------------------
(* config.rs *)

None == [some |-> FALSE, val |-> <<>>]
Some(v) == [some |-> TRUE, val |-> v]

SupportedFormats == {"zip", "tar.gz", "7z"}

RECURSIVE FileRules(_)
\* the second loop of get_ignore_rules: the trimmed lines of the ignore file
\* that are neither empty nor comments
FileRules(lines) ==
    IF lines = <<>> THEN {}
    ELSE LET trimmed_line == Trim(Head(lines))
         IN  (IF trimmed_line # <<>> /\ Head(trimmed_line) # "#"
              THEN {trimmed_line} ELSE {})
             \cup FileRules(Tail(lines))

\* the HashSet all_rules that get_ignore_rules fills from both sources
AllRules(cfg) ==
    (IF cfg.ignore.some
     THEN { cfg.ignore.val[i] : i \in 1..Len(cfg.ignore.val) } ELSE {})
    \cup
    (IF cfg.resolved_ignore_file_content.some
     THEN FileRules(cfg.resolved_ignore_file_content.val) ELSE {})

\* the orders in which a HashSet may hand out its elements: every enumeration
\* without repetition
Enumerations(S) ==
    { q \in [1..Cardinality(S) -> S] : \A i, j \in DOMAIN q : q[i] = q[j] => i = j }

\* Config::get_ignore_rules: the Vec collected from all_rules.into_iter(), one of
\* the enumerations of the set
GetIgnoreRules(cfg) == Enumerations(AllRules(cfg))

\* the name of the process's current directory
CurrentDirName == "base"

\* Config::get_output_name
GetOutputName(cfg) ==
    IF cfg.output_name.some THEN cfg.output_name.val ELSE CurrentDirName

----------------------------------------------------------------------------
(* compressor.rs: helpers *)

\* the match on config.format that names the output file (lines 22-27);
\* "unsupported" stands for the bail! of the last arm
OutputPath(cfg, base_dir) ==
    CASE cfg.format = "zip" -> Join(base_dir, <<<<GetOutputName(cfg), ".zip">>>>)
      [] cfg.format = "tar.gz" -> Join(base_dir, <<<<GetOutputName(cfg), ".tar.gz">>>>)
      [] cfg.format = "7z" -> Join(base_dir, <<<<GetOutputName(cfg), ".7z">>>>)
      [] OTHER -> <<"unsupported">>

RECURSIVE SplitBackslash(_, _)
\* one path component cut at its "\\" characters
SplitBackslash(name, cur) ==
    IF name = <<>> THEN <<cur>>
    ELSE IF Head(name) = "\\" THEN <<cur>> \o SplitBackslash(Tail(name), <<>>)
    ELSE SplitBackslash(Tail(name), Append(cur, Head(name)))

RECURSIVE ToSlash(_)
\* relative_path.to_string_lossy().replace("\\", "/"): the entry name, in which
\* every backslash of a component has become a separator
ToSlash(rel) ==
    IF rel = <<>> THEN <<>>
    ELSE SplitBackslash(Head(rel), <<>>) \o ToSlash(Tail(rel))

\* File::open for reading succeeds on an existing, reachable, permitted node
\* (a directory can be opened too; reading it is what fails)
CanOpen(f, path) ==
    path \in DOMAIN f /\ f[path].kind # "none" /\ Reachable(f, path) /\ f[path].access

\* File::create succeeds when the parent directory exists and can be written
\* and the path is not a directory
CanCreate(f, path) ==
    /\ Len(path) > 1
    /\ IsDir(f, Parent(path)) /\ f[Parent(path)].access
    /\ path \in DOMAIN f /\ f[path].kind # "dir"

\* the bytes of an archive that is still being written, and of a finished one
PartialBytes == "partial"
ArchiveBytes == "archive"

----------------------------------------------------------------------------
(* Initial states *)

NoCall == [op |-> "none"]
NoResult == [status |-> "none", error |-> "none"]
Ok == [status |-> "ok", error |-> "none"]
Err(tag) == [status |-> "err", error |-> tag]

\* a node from its state: absent, present, or present without permissions
Node(st, kind, bytes) ==
    IF st = "none" THEN Absent
    ELSE [kind |-> kind, access |-> (st = "ok"), content |-> bytes]

\* a tree under base: keep.tmp, w\x, build/, build/keep.txt, build/sub/,
\* build/sub/output.o, and a file outside base
MkTree(base, keepTmp, wx, build, keepTxt, sub, output) ==
    [p \in FsPaths |->
        CASE p = pBase -> Node(base, "dir", "none")
          [] p = pKeepTmp -> Node(keepTmp, "file", "T")
          [] p = pWBackslashX -> Node(wx, "file", "W")
          [] p = pBuild -> Node(build, "dir", "none")
          [] p = pBuildKeep -> Node(keepTxt, "file", "K")
          [] p = pBuildSub -> Node(sub, "dir", "none")
          [] p = pBuildSubOutput -> Node(output, "file", "O")
          [] p = <<nOther>> -> Node("ok", "dir", "none")
          [] p = pOther -> Node("ok", "file", "X")
          [] OTHER -> Absent]

NodeStates == {"none", "ok", "locked"}

\* the trees a run may find: every combination of absent / present / locked
\* nodes in which a node exists only inside an existing directory
InitTrees ==
    { MkTree("ok", t, "none", b, k, s, o) :
        t \in NodeStates, b \in NodeStates, k \in {"none", "ok"},
        s \in NodeStates, o \in {"none", "ok"} }
    \cup { MkTree("ok", "none", "ok", "ok", "ok", "none", "none"),
           MkTree("locked", "ok", "none", "none", "none", "none", "none"),
           MkTree("none", "none", "none", "none", "none", "none", "none") }

WellFormed(f) ==
    \A p \in DOMAIN f :
        f[p].kind # "none" /\ Len(p) > 1 => f[Parent(p)].kind = "dir"

\* the tree of the library-call specifications
ExampleTree == MkTree("ok", "ok", "none", "ok", "ok", "ok", "ok")

cComment == <<"#", " ", "comment">>
cBlank == <<" ">>
cNotKeepTmp == <<" ", "!", "keep", ".tmp", " ">>

MkConfig(fmt, ignore, content) ==
    [format |-> fmt, output_name |-> Some("out"), ignore |-> ignore,
     resolved_ignore_file_content |-> content]

\* the rule sources of the configurations a run is started with
RuleSources ==
    { <<None, None>>,
      <<Some(<<rBuildDir>>), None>>,
      <<Some(<<rBuildDir, rNotBuildKeep>>), None>>,
      <<Some(<<rStarTmp, rNotKeepTmp>>), None>>,
      <<Some(<<rStarTmp>>), Some(<<cComment, cBlank, cNotKeepTmp>>)>>,
      <<Some(<<rStarTmp, rBuildDir>>), None>>,
      <<Some(<<rBad>>), None>> }

\* what Config::load returns: the format is one of the supported ones
MainConfigs ==
    { MkConfig(fmt, src[1], src[2]) : fmt \in SupportedFormats, src \in RuleSources }

Init ==
    /\ fs \in { f \in InitTrees : WellFormed(f) }
    /\ config \in MainConfigs
    /\ pc = "start"
    /\ runs = 0
    /\ todo = <<>>
    /\ visited = <<>>
    /\ walk_errors = {}
    /\ all_files = <<>>
    /\ rule_list = <<>>
    /\ ignore_rules = NoRules
    /\ files_to_compress = <<>>
    /\ writer = "none"
    /\ idx = 0
    /\ entries = <<>>
    /\ result = NoResult
    /\ call = NoCall

----------------------------------------------------------------------------
(* main.rs: the compress command *)

\* main, lines 50-62: a run starts; the base directory must be a directory, and
\* collect_all_files starts WalkDir at it
MainStart ==
    /\ pc \in {"start", "done"}
    /\ call.op \in {"none", "main"}
    /\ runs < MaxRuns
    /\ runs' = runs + 1
    /\ call' = [op |-> "main"]
    /\ visited' = <<>>
    /\ walk_errors' = {}
    /\ all_files' = <<>>
    /\ rule_list' = <<>>
    /\ ignore_rules' = NoRules
    /\ files_to_compress' = <<>>
    /\ writer' = "none"
    /\ idx' = 0
    /\ entries' = <<>>
    /\ IF IsDir(fs, BaseDir)
       THEN /\ pc' = "walk"
            /\ todo' = <<BaseDir>>
            /\ result' = NoResult
       ELSE /\ pc' = "done"
            /\ todo' = <<>>
            /\ result' = Err("not_a_directory")
    /\ UNCHANGED <<fs, config>>

\* collect_all_files, one turn of the loop over WalkDir: the next entry is
\* yielded; a directory's children are listed (a failed read_dir is an Err item
\* that filter_map(|e| e.ok()) drops); an entry that is a file is pushed
WalkNext ==
    /\ pc = "walk"
    /\ todo # <<>>
    /\ LET path == Head(todo)
       IN  /\ visited' = Append(visited, path)
           /\ IF fs[path].kind = "dir" /\ fs[path].access
              THEN /\ todo' = SortedPaths(Children(fs, path)) \o Tail(todo)
                   /\ UNCHANGED walk_errors
              ELSE /\ todo' = Tail(todo)
                   /\ walk_errors' = IF fs[path].kind = "dir"
                                     THEN walk_errors \cup {path}
                                     ELSE walk_errors
           /\ all_files' = IF IsFile(fs, path) THEN Append(all_files, path)
                           ELSE all_files
    /\ UNCHANGED <<fs, config, pc, runs, rule_list, ignore_rules,
                   files_to_compress, writer, idx, entries, result, call>>

\* main, line 65, once the walk has returned: the rules of the configuration,
\* in the order get_ignore_rules hands them out, are compiled
MainRules ==
    /\ pc = "walk"
    /\ todo = <<>>
    /\ \E rules \in GetIgnoreRules(config) :
        /\ rule_list' = rules
        /\ IF NewFails(rules)
           THEN /\ pc' = "done"
                /\ result' = Err("invalid_rule")
                /\ UNCHANGED ignore_rules
           ELSE /\ pc' = "filter"
                /\ ignore_rules' = NewIgnoreRules(rules, BaseDir)
                /\ UNCHANGED result
    /\ UNCHANGED <<fs, config, runs, todo, visited, walk_errors, all_files,
                   files_to_compress, writer, idx, entries, call>>

\* main, lines 66-71: the collected files are filtered; with nothing left the
\* run ends with Ok before compress_directory is called
MainFilter ==
    /\ pc = "filter"
    /\ LET files == FilterFiles(ignore_rules, fs, all_files)
       IN  /\ files_to_compress' = files
           /\ IF files = <<>>
              THEN pc' = "done" /\ result' = Ok
              ELSE pc' = "compress" /\ UNCHANGED result
    /\ UNCHANGED <<fs, config, runs, todo, visited, walk_errors, all_files,
                   rule_list, ignore_rules, writer, idx, entries, call>>

----------------------------------------------------------------------------
(* compressor.rs *)

\* the output file of the running writer
Output == OutputPath(config, BaseDir)

\* mutant of CompressDirectory: the empty list is not returned early
CompressDirectoryNoEmptyCheck ==
    /\ pc = "compress"
    /\ IF config.format \notin SupportedFormats
       THEN pc' = "done" /\ result' = Err("unsupported_format") /\ UNCHANGED writer
       ELSE pc' = "create" /\ writer' = config.format /\ UNCHANGED result
    /\ UNCHANGED <<fs, config, runs, todo, visited, walk_errors, all_files,
                   rule_list, ignore_rules, files_to_compress, idx, entries, call>>

\* compress_directory, lines 21-58: an unsupported format is an error, an empty
\* list returns Ok before any writer is called, otherwise the writer of the
\* format is entered
CompressDirectory ==
    /\ pc = "compress"
    /\ IF config.format \notin SupportedFormats
       THEN pc' = "done" /\ result' = Err("unsupported_format") /\ UNCHANGED writer
       ELSE IF files_to_compress = <<>>
       THEN pc' = "done" /\ result' = Ok /\ UNCHANGED writer
       ELSE pc' = "create" /\ writer' = config.format /\ UNCHANGED result
    /\ UNCHANGED <<fs, config, runs, todo, visited, walk_errors, all_files,
                   rule_list, ignore_rules, files_to_compress, idx, entries, call>>

\* File::create / SevenZWriter::create on the output path (lines 106, 156, 195):
\* the file is created or truncated, or the writer returns the error
Create(w) ==
    /\ pc = "create"
    /\ writer = w
    /\ IF CanCreate(fs, Output)
       THEN /\ fs' = [fs EXCEPT ![Output] = FileNode(TRUE, PartialBytes)]
            /\ pc' = "entry"
            /\ idx' = 1
            /\ UNCHANGED result
       ELSE /\ pc' = "done"
            /\ result' = Err("create")
            /\ UNCHANGED <<fs, idx>>
    /\ UNCHANGED <<config, runs, todo, visited, walk_errors, all_files, rule_list,
                   ignore_rules, files_to_compress, writer, entries, call>>

\* a writer returns Err from inside its loop (the ? operator) with the entries
\* pushed so far; compress_directory hands the error on (lines 78-81).  The
\* writer value is dropped: ZipWriter and tar::Builder over GzEncoder write
\* their trailer when dropped, SevenZWriter does not.  The file stays.
Fail(tag, pushed) ==
    /\ pc' = "done"
    /\ result' = Err(tag)
    /\ entries' = pushed
    /\ fs' = IF writer \in {"zip", "tar.gz"}
             THEN [fs EXCEPT ![Output] = FileNode(TRUE, ArchiveBytes)]
             ELSE fs
    /\ UNCHANGED idx

\* one entry has been added; the loop goes on
Pushed(e) ==
    /\ entries' = Append(entries, e)
    /\ idx' = idx + 1
    /\ UNCHANGED <<fs, pc, result>>

\* compress_zip, one turn of the loop (lines 109-129)
ZipEntry ==
    /\ pc = "entry"
    /\ writer = "zip"
    /\ idx <= Len(files_to_compress)
    /\ LET file_path == files_to_compress[idx]
           relative_path == StripPrefix(file_path, BaseDir)
           name == ToSlash(relative_path)
       IN  IF ~StripPrefixOk(file_path, BaseDir) THEN Fail("strip_prefix", entries)
           ELSE IF ~CanOpen(fs, file_path) THEN Fail("open", entries)
           ELSE IF fs[file_path].kind = "dir"
                THEN Fail("read", Append(entries, [name |-> name, bytes |-> "empty"]))
           ELSE Pushed([name |-> name, bytes |-> fs[file_path].content])
    /\ UNCHANGED <<config, runs, todo, visited, walk_errors, all_files, rule_list,
                   ignore_rules, files_to_compress, writer, call>>

\* compress_tar_gz, one turn of the loop (lines 160-169): append_path_with_name
\* reads the metadata of the path, adds a directory as a directory entry and a
\* file with its bytes
TarEntry ==
    /\ pc = "entry"
    /\ writer = "tar.gz"
    /\ idx <= Len(files_to_compress)
    /\ LET file_path == files_to_compress[idx]
           relative_path == StripPrefix(file_path, BaseDir)
       IN  IF ~StripPrefixOk(file_path, BaseDir) THEN Fail("strip_prefix", entries)
           ELSE IF IsDir(fs, file_path)
                THEN Pushed([name |-> relative_path, bytes |-> "dir"])
           ELSE IF ~(IsFile(fs, file_path) /\ CanOpen(fs, file_path))
                THEN Fail("append", entries)
           ELSE Pushed([name |-> relative_path, bytes |-> fs[file_path].content])
    /\ UNCHANGED <<config, runs, todo, visited, walk_errors, all_files, rule_list,
                   ignore_rules, files_to_compress, writer, call>>

\* mutant of SevenZEntry: a path outside base_dir is passed over like a path
\* that is not a file
SevenZEntrySkipsOutside ==
    /\ pc = "entry"
    /\ writer = "7z"
    /\ idx <= Len(files_to_compress)
    /\ LET file_path == files_to_compress[idx]
           relative_path == StripPrefix(file_path, BaseDir)
       IN  IF ~StripPrefixOk(file_path, BaseDir) \/ ~IsFile(fs, file_path)
                THEN idx' = idx + 1 /\ UNCHANGED <<fs, pc, result, entries>>
           ELSE IF ~CanOpen(fs, file_path) THEN Fail("open", entries)
           ELSE Pushed([name |-> ToSlash(relative_path),
                        bytes |-> fs[file_path].content])
    /\ UNCHANGED <<config, runs, todo, visited, walk_errors, all_files, rule_list,
                   ignore_rules, files_to_compress, writer, call>>

\* compress_7z, one turn of the loop (lines 197-219): a path that is not a
\* file is passed over
SevenZEntry ==
    /\ pc = "entry"
    /\ writer = "7z"
    /\ idx <= Len(files_to_compress)
    /\ LET file_path == files_to_compress[idx]
           relative_path == StripPrefix(file_path, BaseDir)
       IN  IF ~StripPrefixOk(file_path, BaseDir) THEN Fail("strip_prefix", entries)
           ELSE IF ~IsFile(fs, file_path)
                THEN idx' = idx + 1 /\ UNCHANGED <<fs, pc, result, entries>>
           ELSE IF ~CanOpen(fs, file_path) THEN Fail("open", entries)
           ELSE Pushed([name |-> ToSlash(relative_path),
                        bytes |-> fs[file_path].content])
    /\ UNCHANGED <<config, runs, todo, visited, walk_errors, all_files, rule_list,
                   ignore_rules, files_to_compress, writer, call>>

\* zip.finish / tar.finish / sz_writer.finish after the loop (lines 131, 171,
\* 221), and compress_directory's Ok arm (lines 62-84)
Finish(w) ==
    /\ pc = "entry"
    /\ writer = w
    /\ idx > Len(files_to_compress)
    /\ fs' = [fs EXCEPT ![Output] = FileNode(TRUE, ArchiveBytes)]
    /\ pc' = "done"
    /\ result' = Ok
    /\ UNCHANGED <<config, runs, todo, visited, walk_errors, all_files, rule_list,
                   ignore_rules, files_to_compress, writer, idx, entries, call>>

CompressZipCreate == Create("zip")
CompressTarGzCreate == Create("tar.gz")
CompressSevenZCreate == Create("7z")
CompressZipFinish == Finish("zip")
CompressTarGzFinish == Finish("tar.gz")
CompressSevenZFinish == Finish("7z")

----------------------------------------------------------------------------
(* Library calls *)

\* paths a library caller lists: files, a directory, a path outside base
LibPaths == {pKeepTmp, pBuildKeep, pBuild, pOther}

\* compress_directory called by a library user with its own Config and list
CallCompressDirectory ==
    /\ pc = "start"
    /\ call.op = "none"
    /\ \E fmt \in SupportedFormats \cup {"rar"}, files \in SeqsUpTo(LibPaths, MaxFiles) :
        /\ config' = [config EXCEPT !.format = fmt]
        /\ files_to_compress' = files
    /\ call' = [op |-> "compress_directory"]
    /\ pc' = "compress"
    /\ runs' = runs + 1
    /\ UNCHANGED <<fs, todo, visited, walk_errors, all_files, rule_list,
                   ignore_rules, writer, idx, entries, result>>

\* absolute paths a library caller asks should_ignore about
QueryPaths == { Join(BaseDir, rel) : rel \in RelPaths } \cup {pOther}

\* IgnoreRules::new called by a library user with its own rule list
CallNew ==
    /\ pc = "lib"
    /\ \E rules \in SeqsUpTo(RuleLines \cup {rBad}, MaxRules) :
        /\ rule_list' = rules
        /\ IF NewFails(rules)
           THEN /\ ignore_rules' = NoRules
                /\ result' = Err("invalid_rule")
                /\ pc' = "done"
           ELSE /\ ignore_rules' = NewIgnoreRules(rules, BaseDir)
                /\ result' = Ok
                /\ pc' = "built"
    /\ call' = [op |-> "new"]
    /\ UNCHANGED <<fs, config, runs, todo, visited, walk_errors, all_files,
                   files_to_compress, writer, idx, entries>>

\* IgnoreRules::should_ignore called on the built IgnoreRules.  The methods take
\* &self and change nothing, so one call per construction shows every call.
CallShouldIgnore ==
    /\ pc = "built"
    /\ \E path \in QueryPaths, is_dir \in BOOLEAN :
        call' = [op |-> "should_ignore", path |-> path, is_dir |-> is_dir,
                 ret |-> ShouldIgnore(ignore_rules, path, is_dir)]
    /\ pc' = "done"
    /\ UNCHANGED <<fs, config, runs, todo, visited, walk_errors, all_files,
                   rule_list, ignore_rules, files_to_compress, writer, idx,
                   entries, result>>

\* paths a library caller hands to filter_files
FilterPaths == {pKeepTmp, pBuild, pBuildKeep, pBuildSubOutput, pOther}

\* IgnoreRules::filter_files called on the built IgnoreRules
CallFilterFiles ==
    /\ pc = "built"
    /\ \E files \in SeqsUpTo(FilterPaths, MaxFiles) :
        call' = [op |-> "filter_files", files |-> files,
                 ret |-> FilterFiles(ignore_rules, fs, files)]
    /\ pc' = "done"
    /\ UNCHANGED <<fs, config, runs, todo, visited, walk_errors, all_files,
                   rule_list, ignore_rules, files_to_compress, writer, idx,
                   entries, result>>

\* a library user of ignore_rules.rs: nothing built yet, a populated tree
InitRules ==
    /\ fs = ExampleTree
    /\ config = MkConfig("zip", None, None)
    /\ pc = "lib"
    /\ runs = 0
    /\ todo = <<>>
    /\ visited = <<>>
    /\ walk_errors = {}
    /\ all_files = <<>>
    /\ rule_list = <<>>
    /\ ignore_rules = NoRules
    /\ files_to_compress = <<>>
    /\ writer = "none"
    /\ idx = 0
    /\ entries = <<>>
    /\ result = NoResult
    /\ call = NoCall

NextRules == CallNew \/ CallShouldIgnore \/ CallFilterFiles

SpecRules == InitRules /\ [][NextRules]_vars

Next ==
    \/ MainStart
    \/ WalkNext
    \/ MainRules
    \/ MainFilter
    \/ CompressDirectory
    \/ CompressZipCreate
    \/ ZipEntry
    \/ CompressZipFinish
    \/ CompressTarGzCreate
    \/ TarEntry
    \/ CompressTarGzFinish
    \/ CompressSevenZCreate
    \/ SevenZEntry
    \/ CompressSevenZFinish
    \/ CallCompressDirectory

Spec == Init /\ [][Next]_vars

----------------------------------------------------------------------------
(* Properties of the rule matcher (SpecRules) *)

\* a rule line, as written, matches a relative path: rule text against path,
\* a trailing "/" restricting the rule to directories
RuleMatches(rule, rel, is_dir) ==
    ~LineSkipped(rule) /\ GlobApplies(ParseLine(rule), rel, is_dir)

Negated(rule) == Len(rule) > 0 /\ rule[1] = "!"

MatchingRules(rules, rel, is_dir) ==
    { i \in 1..Len(rules) : RuleMatches(rules[i], rel, is_dir) }

\* last-match-wins on the path itself: the latest matching rule decides, and a
\* path no rule matches is not ignored
LastMatchWins(rules, rel, is_dir) ==
    LET hits == MatchingRules(rules, rel, is_dir)
    IN  hits # {} /\ ~Negated(rules[CHOOSE i \in hits : \A j \in hits : j <= i])

\* the proper ancestor directories of a relative path
Ancestors(rel) == { SubSeq(rel, 1, k) : k \in 1..(Len(rel) - 1) }

\* a directory is ignored by its own last-matching rule
DirIgnored(rules, dir) == LastMatchWins(rules, dir, TRUE)

IsQuery == call.op = "should_ignore" /\ StripPrefixOk(call.path, BaseDir)
QueryRel == StripPrefix(call.path, BaseDir)

\* C1 (as claimed): a path with a proper ancestor directory that is ignored by
\* its own last-matching rule is ignored, whatever rule matches the path itself;
\* with the rules build/ and !build/keep.txt, build/keep.txt is ignored.
C1_NegationCannotReachInside ==
    IsQuery /\ (\E dir \in Ancestors(QueryRel) : DirIgnored(rule_list, dir))
        => call.ret = TRUE

\* C2 (as claimed): should_ignore is last-match-wins on the path: ignored when
\* the latest rule matching the path is not negated, not ignored when it is
\* negated, not ignored when no rule matches the path.
C2_LastMatchOnPathAlone ==
    IsQuery => call.ret = LastMatchWins(rule_list, QueryRel, call.is_dir)

RECURSIVE NearestDecision(_, _, _)
\* last-match-wins on the path when a rule matches it, else on its nearest
\* ancestor directory that a rule matches, else not ignored
NearestDecision(rules, rel, is_dir) ==
    IF MatchingRules(rules, rel, is_dir) # {} THEN LastMatchWins(rules, rel, is_dir)
    ELSE IF Len(rel) <= 1 THEN FALSE
    ELSE NearestDecision(rules, Parent(rel), TRUE)

\* C2 (amended): when a rule of the list handed to IgnoreRules::new matches the
\* path, the latest-declared matching rule decides (ignored iff it is not
\* negated); when none matches the path, the nearest ancestor directory that a
\* rule matches decides in the same way, and a path with no matching rule on
\* itself or any ancestor is not ignored.  With *.tmp, !keep.tmp: a.tmp is
\* ignored and keep.tmp is not; with *.log, !important.log, *.log:
\* important.log is ignored.
C2_LastMatchWins ==
    IsQuery =>
        /\ call.ret = NearestDecision(rule_list, QueryRel, call.is_dir)
        /\ (MatchingRules(rule_list, QueryRel, call.is_dir) # {}
                => call.ret = LastMatchWins(rule_list, QueryRel, call.is_dir))
        /\ (rule_list = <<rStarTmp, rNotKeepTmp>> /\ ~call.is_dir =>
                /\ (QueryRel = <<nATmp>> => call.ret = TRUE)
                /\ (QueryRel = <<nKeepTmp>> => call.ret = FALSE))
        /\ (rule_list = <<rStarLog, rNotImportantLog, rStarLog>> /\ ~call.is_dir
             /\ QueryRel = <<nImportantLog>> => call.ret = TRUE)

\* C2 witness: important.log asked under *.log, !important.log, *.log
C2_Witness ==
    /\ IsQuery
    /\ rule_list = <<rStarLog, rNotImportantLog, rStarLog>>
    /\ QueryRel = <<nImportantLog>>
    /\ ~call.is_dir
    /\ call.ret = TRUE

\* the latest rule matching dir as a directory is a directory-only rule that
\* ignores it
IgnoredByDirRule(rules, dir) ==
    LET hits == MatchingRules(rules, dir, TRUE)
    IN  /\ hits # {}
        /\ LET last == rules[CHOOSE i \in hits : \A j \in hits : j <= i]
           IN  ~Negated(last) /\ ParseLine(last).is_only_dir

\* C4 (as claimed): when a directory-only rule ignores a directory,
\* should_ignore is true for the directory and for every path below it at any
\* depth, and filter_files returns no path below an ignored directory.
C4_IgnoredDirectoryCoversSubtree ==
    /\ IsQuery /\ call.is_dir /\ IgnoredByDirRule(rule_list, QueryRel)
            => call.ret = TRUE
    /\ IsQuery /\ (\E dir \in Ancestors(QueryRel) : IgnoredByDirRule(rule_list, dir))
            => call.ret = TRUE
    /\ call.op = "filter_files" =>
            \A i \in 1..Len(call.ret) :
                StripPrefixOk(call.ret[i], BaseDir) =>
                    ~\E dir \in Ancestors(StripPrefix(call.ret[i], BaseDir)) :
                        DirIgnored(rule_list, dir)

----------------------------------------------------------------------------
(* Properties of the compress run (Spec) *)

InMain == call.op = "main"
InLibrary == call.op = "compress_directory"
Finished == pc = "done"

RECURSIVE FileRuleSeq(_)
\* the rule lines of the ignore file in the order of the file
FileRuleSeq(lines) ==
    IF lines = <<>> THEN <<>>
    ELSE LET trimmed_line == Trim(Head(lines))
         IN  (IF trimmed_line # <<>> /\ Head(trimmed_line) # "#"
              THEN <<trimmed_line>> ELSE <<>>)
             \o FileRuleSeq(Tail(lines))

InlineRules(cfg) == IF cfg.ignore.some THEN cfg.ignore.val ELSE <<>>
IgnoreFileRules(cfg) ==
    IF cfg.resolved_ignore_file_content.some
    THEN FileRuleSeq(cfg.resolved_ignore_file_content.val) ELSE <<>>

\* two rule sets decide alike on every path
SameDecisions(ir1, ir2) ==
    \A rel \in RelPaths, is_dir \in BOOLEAN :
        ShouldIgnore(ir1, Join(BaseDir, rel), is_dir)
            = ShouldIgnore(ir2, Join(BaseDir, rel), is_dir)

\* C3 (as claimed): the rules the run hands to the matcher decide every path as
\* last-match-wins on the declared order does, the two sources merged in one
\* of the two orders.
C3_DeclaredOrderDecides ==
    InMain /\ ignore_rules.built =>
        \/ SameDecisions(ignore_rules,
                NewIgnoreRules(InlineRules(config) \o IgnoreFileRules(config), BaseDir))
        \/ SameDecisions(ignore_rules,
                NewIgnoreRules(IgnoreFileRules(config) \o InlineRules(config), BaseDir))

\* C5 (as claimed): the walker visits nothing below a directory that is
\* ignored.
C5_IgnoredDirectoryNotDescended ==
    InMain /\ ignore_rules.built =>
        \A i \in 1..Len(visited) :
            ~\E k \in (Len(BaseDir) + 1)..(Len(visited[i]) - 1) :
                ShouldIgnore(ignore_rules, SubSeq(visited[i], 1, k), TRUE)

\* the bag of the elements of a sequence
BagOf(seq) ==
    [ e \in { seq[i] : i \in DOMAIN seq } |->
        Cardinality({ i \in DOMAIN seq : seq[i] = e }) ]

\* C6 (as claimed): after a successful write the archive holds exactly one entry
\* per surviving file, named by the path relative to base_dir and holding the
\* file's bytes.
C6_EntriesAreSurvivingFiles ==
    InMain /\ Finished /\ result.status = "ok" /\ writer # "none" =>
        BagOf(entries) =
            BagOf([ i \in 1..Len(files_to_compress) |->
                    [name |-> StripPrefix(files_to_compress[i], BaseDir),
                     bytes |-> fs[files_to_compress[i]].content] ])

\* the writer of the run got as far as creating the output file
OutputCreated == writer # "none" /\ result.error # "create"

\* C7 (as claimed): after a run whose writer failed, the output file is gone
\* (the code has no way to mark a file incomplete).
C7_NoArchiveAfterFailure ==
    InMain /\ Finished /\ result.status = "err" /\ OutputCreated
        => fs[Output].kind = "none"

\* the errors the outcome of a run names
Reported(r) == IF r.status = "err" THEN {r.error} ELSE {}

\* C8 (as claimed): an unreadable subdirectory does not stop the walk, which
\* still collects every file it can reach, and its read error is reported with
\* the outcome of the run.
C8_WalkErrorsReported ==
    /\ InMain /\ pc = "filter" =>
            { all_files[i] : i \in 1..Len(all_files) }
                = { p \in DOMAIN fs : IsFile(fs, p) /\ StripPrefixOk(p, BaseDir) }
    /\ InMain /\ Finished /\ result.status = "ok" /\ writer # "none"
       /\ walk_errors \ {BaseDir} # {}
            => "read_dir" \in Reported(result)

\* C9: a list with a path that is not under base_dir ends in an error, with
\* every writer, and no writer ever moves past such a path.
C9_OutsideBaseIsAnError ==
    LET outside == { i \in 1..Len(files_to_compress) :
                        ~StripPrefixOk(files_to_compress[i], BaseDir) }
    IN  /\ Finished /\ outside # {} /\ (InMain => ignore_rules.built)
            => result.status = "err"
        /\ writer # "none" => \A i \in outside : idx <= i

\* C9 witness: compress_7z stopped at a path outside base_dir
C9_Witness ==
    /\ Finished
    /\ writer = "7z"
    /\ result = Err("strip_prefix")
    /\ idx > 1

\* the run has an empty filtered list
EmptyRun ==
    /\ Finished
    /\ files_to_compress = <<>>
    /\ \/ InLibrary
       \/ InMain /\ ignore_rules.built

\* C10 (as claimed): a run with an empty filtered list returns success, enters
\* no writer and leaves the output path alone.
C10_EmptyListIsSuccess ==
    EmptyRun => result = Ok /\ writer = "none"

\* C10 (amended): with one of the supported formats, a run with an empty
\* filtered list returns success, enters no writer and creates or truncates
\* nothing at the output path.
C10_EmptyListIsSuccessIfSupported ==
    EmptyRun /\ config.format \in SupportedFormats =>
        /\ result = Ok
        /\ writer = "none"
        /\ fs[Output].kind = "none"

\* C10 witness: a run of main whose files were all filtered out
C10_Witness ==
    /\ EmptyRun
    /\ InMain
    /\ all_files # <<>>
    /\ result = Ok

----------------------------------------------------------------------------
(* config.rs: Config::default and get_ignore_rules called on a Config *)

MaxLines == 4

\* the ignore list of Config::default (lines 28-52)
DefaultIgnore ==
    << <<"target", "/">>, <<"*", ".tmp">>, <<"*", ".log">>, <<".DS_Store">>,
       <<"Thumbs.db">>, <<"*", ".swp">>, <<"*", ".swo">>, <<"*", "~">>,
       <<".git", "/">>, <<".svn", "/">>, <<".hg", "/">>, <<"node_modules", "/">>,
       <<"__pycache__", "/">>, <<".pytest_cache", "/">>, <<".venv", "/">>,
       <<"venv", "/">>, <<"env", "/">>, <<"*", ".pyc">>, <<"*", ".pyo">>,
       <<"*", ".pyd">>, <<".idea", "/">>, <<".vscode", "/">>, <<"*", ".iml">> >>

\* impl Default for Config
DefaultConfig ==
    [format |-> "tar.gz", output_name |-> None, ignore |-> Some(DefaultIgnore),
     resolved_ignore_file_content |-> None]

cRuleFromFile1 == <<"rule_from_file1">>
cRuleFromFile2 == <<"rule_from_file2">>
cPaddedRule == <<" ", "rule_from_file1", " ">>

\* the lines an ignore file is made of: a comment, an empty line, a line of
\* blanks, rules, a rule between blanks, a rule that is also a default rule
ContentLines ==
    {cComment, <<>>, cBlank, cRuleFromFile1, cRuleFromFile2, cPaddedRule, rStarTmp}

\* the configurations get_ignore_rules is called on: the default, one with its
\* own ignore list, one without any
CallConfigs ==
    { DefaultConfig,
      [DefaultConfig EXCEPT !.format = "zip",
                            !.ignore = Some(<<cRuleFromFile1, rStarLog>>)],
      [DefaultConfig EXCEPT !.format = "zip", !.ignore = None] }

InitConfig ==
    /\ fs = ExampleTree
    /\ config \in CallConfigs
    /\ pc = "cfg"
    /\ runs = 0
    /\ todo = <<>>
    /\ visited = <<>>
    /\ walk_errors = {}
    /\ all_files = <<>>
    /\ rule_list = <<>>
    /\ ignore_rules = NoRules
    /\ files_to_compress = <<>>
    /\ writer = "none"
    /\ idx = 0
    /\ entries = <<>>
    /\ result = NoResult
    /\ call = NoCall

\* the content of the ignore file is stored in the Config, the lines of the
\* content in the order of the file
SetResolvedContent ==
    /\ pc = "cfg"
    /\ ~config.resolved_ignore_file_content.some
    /\ \E content \in SeqsUpTo(ContentLines, MaxLines) :
        config' = [config EXCEPT !.resolved_ignore_file_content = Some(content)]
    /\ UNCHANGED <<fs, pc, runs, todo, visited, walk_errors, all_files, rule_list,
                   ignore_rules, files_to_compress, writer, idx, entries, result,
                   call>>

\* Config::get_ignore_rules called on the Config.  The Vec it returns is the
\* HashSet all_rules in the set's iteration order: its elements are distinct,
\* so the Vec is kept as the set of its elements and its length.
CallGetIgnoreRules ==
    /\ pc = "cfg"
    /\ call' = [op |-> "get_ignore_rules", ret |-> AllRules(config),
                len |-> Cardinality(AllRules(config))]
    /\ pc' = "done"
    /\ UNCHANGED <<fs, config, runs, todo, visited, walk_errors, all_files,
                   rule_list, ignore_rules, files_to_compress, writer, idx,
                   entries, result>>

NextConfig == SetResolvedContent \/ CallGetIgnoreRules

SpecConfig == InitConfig /\ [][NextConfig]_vars

----------------------------------------------------------------------------
(* Properties of get_ignore_rules (SpecConfig) *)

\* the lines of a content that are rules: trimmed, not empty, not a comment
RuleLinesOf(content) ==
    { Trim(content[i]) : i \in { j \in 1..Len(content) :
                                    /\ Trim(content[j]) # <<>>
                                    /\ Head(Trim(content[j])) # "#" } }

\* the Config is Config::default() with only the file content set since
DefaultWithContent ==
    /\ config.resolved_ignore_file_content.some
    /\ config = [DefaultConfig EXCEPT
                    !.resolved_ignore_file_content = config.resolved_ignore_file_content]

\* the content of the unit test: a comment, a rule, an empty line, a rule
TestContent == <<cComment, cRuleFromFile1, <<>>, cRuleFromFile2>>

\* C11 (as claimed): on Config::default() with only the file content set,
\* get_ignore_rules returns exactly the trimmed, non-blank, non-comment lines of
\* the content; for the content of the unit test that is exactly 2 rules.
C11_OnlyFileRulesFromDefault ==
    call.op = "get_ignore_rules" /\ DefaultWithContent =>
        /\ call.ret = RuleLinesOf(config.resolved_ignore_file_content.val)
        /\ config.resolved_ignore_file_content.val = TestContent => call.len = 2

----------------------------------------------------------------------------
(* Properties of the compress run (Spec), continued *)

\* the run failed early: the rules did not compile, or the root directory of
\* the walk could not be read
CompileFailed == NewFails(rule_list)
RootWalkFailed == BaseDir \in walk_errors

\* C12 (as claimed): a run in which rule compilation fails or the root of the
\* walk cannot be read never enters a writer (the output file is not created),
\* never reports success, and ends with an error.
C12_EarlyFailureAborts ==
    InMain /\ (CompileFailed \/ RootWalkFailed) =>
        /\ writer = "none"
        /\ result.status # "ok"
        /\ Finished => result.status = "err"

\* C13 (as claimed): in no run of a sequence of runs on the same base directory
\* with the same config is the file at the run's own output path added to the archive
\* as an entry.
C13_OutputIsNeverAnEntry ==
    InMain /\ writer # "none" =>
        \A i \in 1..Len(entries) : entries[i].name # StripPrefix(Output, BaseDir)

----------------------------------------------------------------------------
(* compressor.rs: the three writers as functions of the list and the tree *)

\* one turn of a writer's loop on file_path (lines 109-129, 160-169, 197-219):
\* the writer returns an error, passes the path over, or adds an entry
EntryStep(w, f, file_path) ==
    LET relative_path == StripPrefix(file_path, BaseDir)
    IN  IF ~StripPrefixOk(file_path, BaseDir) THEN [kind |-> "err"]
        ELSE CASE w = "zip" ->
                    IF ~CanOpen(f, file_path) \/ f[file_path].kind = "dir"
                    THEN [kind |-> "err"]
                    ELSE [kind |-> "push", name |-> ToSlash(relative_path)]
               [] w = "tar.gz" ->
                    IF IsDir(f, file_path)
                    THEN [kind |-> "push", name |-> relative_path]
                    ELSE IF ~(IsFile(f, file_path) /\ CanOpen(f, file_path))
                    THEN [kind |-> "err"]
                    ELSE [kind |-> "push", name |-> relative_path]
               [] w = "7z" ->
                    IF ~IsFile(f, file_path) THEN [kind |-> "skip"]
                    ELSE IF ~CanOpen(f, file_path) THEN [kind |-> "err"]
                    ELSE [kind |-> "push", name |-> ToSlash(relative_path)]

RECURSIVE RunLoop(_, _, _, _)
\* the loop of a writer over the list, and its finish
RunLoop(w, f, files, names) ==
    IF files = <<>> THEN [status |-> "ok", names |-> names]
    ELSE LET step == EntryStep(w, f, Head(files))
         IN  CASE step.kind = "err" -> [status |-> "err", names |-> names]
               [] step.kind = "skip" -> RunLoop(w, f, Tail(files), names)
               [] step.kind = "push" ->
                    RunLoop(w, f, Tail(files), Append(names, step.name))

\* compress_zip / compress_tar_gz / compress_7z on a list: the outcome and the
\* names of the entries added
RunWriter(w, f, files) ==
    IF ~CanCreate(f, OutputPath([config EXCEPT !.format = w], BaseDir))
    THEN [status |-> "err", names |-> <<>>]
    ELSE RunLoop(w, f, files, <<>>)

\* the names of the entries of the running writer
EntryNames == [ i \in 1..Len(entries) |-> entries[i].name ]

\* C14 (as claimed): the writer a call ran and the other two writers on the same
\* list and tree all succeed with the same sequence of entry names, or all
\* fail; none leaves a path out that another reports an error for.
C14_WritersAgree ==
    InLibrary /\ Finished /\ writer # "none" =>
        \A w \in SupportedFormats :
            /\ RunWriter(w, fs, files_to_compress).status = result.status
            /\ result.status = "ok"
                => RunWriter(w, fs, files_to_compress).names = EntryNames

====
